---- MODULE Spec2Model ----
(***************************************************************************)
(* Model of src/main.py: main's input checks, apply_to_job's construction  *)
(* of the task string and the agent, the wait_for_start_button tool with   *)
(* its closure flag button_clicked, and the page script that               *)
(* inject_start_button_and_wait evaluates (two-step UI resolving a         *)
(* Promise).                                                               *)
(***************************************************************************)
EXTENDS Naturals, Sequences, FiniteSets

VARIABLES main, button_clicked, inv, ui

vars == <<main, button_clicked, inv, ui>>

----------------------------------------------------------------------------
(* Bounds of the exploration *)

\* number of main()/apply_to_job runs that are explored side by side
NumRuns == 2
\* number of wait_for_start_button invocations the agents make in total
MaxInvs == 2
\* number of click events delivered to SUBMIT buttons in total
MaxClicks == 2

Runs == 1..NumRuns
Invs == 1..MaxInvs

----------------------------------------------------------------------------
(* Input environment: the files main() may be pointed at *)

PyStrVal(s) == [type |-> "str", s |-> s, b |-> FALSE]
PyBoolVal(b) == [type |-> "bool", s |-> "", b |-> b]

\* what json.load yields for the applicant data file that exists
JohnRecord ==
    << <<"first_name", PyStrVal("John")>>,
       <<"last_name", PyStrVal("Doe")>>,
       <<"email", PyStrVal("john.doe@example.com")>>,
       <<"US_citizen", PyBoolVal(TRUE)>>,
       <<"sponsorship_needed", PyBoolVal(FALSE)>> >>

DataPaths == {"applicant_data.json", "missing.json"}
ResumePaths == {"example_resume.pdf", "my_resume.pdf", "missing.pdf"}
ExistingPaths == {"applicant_data.json", "example_resume.pdf", "my_resume.pdf"}

\* os.path.exists
path_exists(p) == p \in ExistingPaths

\* json.load(open(p)) for an existing data file
json_load(p) == IF p = "applicant_data.json" THEN JohnRecord ELSE << >>

----------------------------------------------------------------------------
(* Text: a string is modelled as the sequence of its pieces *)

Contains(text, piece) ==
    \E k \in 0..(Len(text) - Len(piece)) :
        SubSeq(text, k + 1, k + Len(piece)) = piece

\* repr() of a Python str or bool
PyRepr(v) ==
    IF v.type = "bool"
    THEN << IF v.b THEN "True" ELSE "False" >>
    ELSE << "'", v.s, "'" >>

\* json text of the same value
JsonRepr(v) ==
    IF v.type = "bool"
    THEN << IF v.b THEN "true" ELSE "false" >>
    ELSE << "\"", v.s, "\"" >>

RECURSIVE PyItems(_)
PyItems(d) ==
    IF d = << >> THEN << >>
    ELSE << "'", d[1][1], "'", ": " >> \o PyRepr(d[1][2])
         \o (IF Len(d) > 1 THEN << ", " >> ELSE << >>)
         \o PyItems(Tail(d))

\* str(dict), which the f-string applies to {applicant_info}
PyStr(d) == << "{" >> \o PyItems(d) \o << "}" >>

RECURSIVE JsonItems(_)
JsonItems(d) ==
    IF d = << >> THEN << >>
    ELSE << "\"", d[1][1], "\"", ": " >> \o JsonRepr(d[1][2])
         \o (IF Len(d) > 1 THEN << ", " >> ELSE << >>)
         \o JsonItems(Tail(d))

JsonStr(d) == << "{" >> \o JsonItems(d) \o << "}" >>

TaskHead ==
    << "\n\t- Your goal is to fill out and submit a job application form with the provided information.",
       "\n\t- Navigate to https://apply.appcast.io/jobs/50590620606/applyboard/apply/",
       "\n\t- FIRST: Use the wait_for_start_button action immediately after navigation.",
       "\n\t- WAIT for the user to click the button before continuing with any form filling.",
       "\n\t- Scroll through the entire application ... return a structured output that can be used to fill out the entire form: " >>

TaskTail ==
    << ". Use the done action to finish the task. Fill out the job application form with the following information.",
       "\n\t- Follow these instructions carefully: ... 1) ... 8) CLICK THE SUBMIT BUTTON AND CHECK FOR A SUCCESS SCREEN.",
       "\n\t*** IMPORTANT ***: ...\n\t" >>

\* a variant that serialises the record as JSON text
TaskJson(applicant_info, resume_path) ==
    TaskHead \o JsonStr(applicant_info) \o TaskTail

\* the f-string of apply_to_job
Task(applicant_info, resume_path) ==
    TaskHead \o PyStr(applicant_info) \o TaskTail

----------------------------------------------------------------------------
(* Results of the tool and of main *)

RetProceed == "User clicked start button - proceeding with form filling"
RetNoPage == "Error: Could not get current page"
RetAlready == "Button already clicked, continuing"

ErrData == "Applicant data file not found"
ErrResume == "Resume file not found"

\* the <option>s of the dropdown; every one is appended with selected = true
DropdownOptions == << "gemini-3-pro-preview" >>
\* dropdown.value of a single-select: the last option marked selected
DropdownValue == DropdownOptions[Len(DropdownOptions)]

None == "None"

----------------------------------------------------------------------------
(* Initial state *)

NoMain ==
    [pc |-> "idle", error |-> None, data_path |-> None, resume_path |-> None,
     applicant_info |-> << >>, task |-> << >>, available_file_paths |-> << >>,
     constructed |-> {}, agent_runs |-> 0]

NoInv == [pc |-> "idle", ret |-> None, result |-> None]

\* the page before page.evaluate ran the script of one invocation
NoUI ==
    [style |-> FALSE, initialButton |-> FALSE, container |-> FALSE,
     timers |-> 0, promise |-> "none", value |-> None,
     fulfilments |-> 0, log |-> << >>]

Init ==
    /\ main = [r \in Runs |-> NoMain]
    /\ button_clicked = [r \in Runs |-> FALSE]
    /\ inv = [r \in Runs |-> [i \in Invs |-> NoInv]]
    /\ ui = [r \in Runs |-> [i \in Invs |-> NoUI]]

----------------------------------------------------------------------------
(* main *)

\* the two checks in the other order
MainOutcomeResumeFirst(data_path, resume_path) ==
    IF ~path_exists(resume_path) THEN ErrResume
    ELSE IF ~path_exists(data_path) THEN ErrData
    ELSE None

\* the two checks at the top of main, in program order
MainOutcome(data_path, resume_path) ==
    IF ~path_exists(data_path) THEN ErrData
    ELSE IF ~path_exists(resume_path) THEN ErrResume
    ELSE None

\* runs are numbered in the order in which they start
MayStart(r) ==
    /\ main[r].pc = "idle"
    /\ r > 1 => main[r - 1].pc # "idle"

\* raise FileNotFoundError(f"Applicant data file not found: ...")
MainMissingData(r) ==
    /\ MayStart(r)
    /\ \E d \in DataPaths, p \in ResumePaths :
          /\ MainOutcome(d, p) = ErrData
          /\ main' = [main EXCEPT ![r] =
                 [@ EXCEPT !.pc = "raised", !.error = ErrData,
                           !.data_path = d, !.resume_path = p]]
    /\ UNCHANGED <<button_clicked, inv, ui>>

\* raise FileNotFoundError(f"Resume file not found: ...")
MainMissingResume(r) ==
    /\ MayStart(r)
    /\ \E d \in DataPaths, p \in ResumePaths :
          /\ MainOutcome(d, p) = ErrResume
          /\ main' = [main EXCEPT ![r] =
                 [@ EXCEPT !.pc = "raised", !.error = ErrResume,
                           !.data_path = d, !.resume_path = p]]
    /\ UNCHANGED <<button_clicked, inv, ui>>

\* one module-level flag for all runs
SharedCell(r) == 1

\* the storage cell of button_clicked that the closures of run r share
FlagCell(r) == r

ReadFlag(r) == button_clicked[FlagCell(r)]

\* main loads the record and awaits apply_to_job, which runs up to its
\* first suspension: llm, tools, flag, browser, task, agent, agent.run()
MainApply(r) ==
    /\ MayStart(r)
    /\ \E d \in DataPaths, p \in ResumePaths :
          /\ MainOutcome(d, p) = None
          /\ main' = [main EXCEPT ![r] =
                 [pc |-> "applying", error |-> None,
                  data_path |-> d, resume_path |-> p,
                  applicant_info |-> json_load(d),
                  task |-> Task(json_load(d), p),
                  available_file_paths |-> << p >>,
                  constructed |-> {"llm", "tools", "browser", "agent"},
                  agent_runs |-> 1]]
    /\ button_clicked' = [button_clicked EXCEPT ![FlagCell(r)] = FALSE]
    /\ UNCHANGED <<inv, ui>>

----------------------------------------------------------------------------
(* wait_for_start_button *)

Started == {ri \in Runs \X Invs : inv[ri[1]][ri[2]].pc # "idle"}

\* invocations of a run are numbered in the order in which the agent
\* makes them
MayInvoke(r, i) ==
    /\ main[r].pc = "applying"
    /\ inv[r][i].pc = "idle"
    /\ i > 1 => inv[r][i - 1].pc # "idle"
    /\ Cardinality(Started) < MaxInvs

\* a variant that marks the gate as taken when the invocation starts
InvokeMarking(r, i) ==
    /\ MayInvoke(r, i)
    /\ IF ReadFlag(r)
       THEN /\ inv' = [inv EXCEPT ![r][i] =
                   [pc |-> "returned", ret |-> RetAlready, result |-> None]]
            /\ UNCHANGED button_clicked
       ELSE /\ inv' = [inv EXCEPT ![r][i].pc = "get_page"]
            /\ button_clicked' = [button_clicked EXCEPT ![FlagCell(r)] = TRUE]
    /\ UNCHANGED <<main, ui>>

\* the agent calls the tool: the flag is read, then either the tool returns
\* at once or it suspends in browser_session.get_current_page()
Invoke(r, i) ==
    /\ MayInvoke(r, i)
    /\ IF ReadFlag(r)
       THEN inv' = [inv EXCEPT ![r][i] =
                [pc |-> "returned", ret |-> RetAlready, result |-> None]]
       ELSE inv' = [inv EXCEPT ![r][i].pc = "get_page"]
    /\ UNCHANGED <<main, button_clicked, ui>>

\* a variant that records the gate as taken although there was no page
GetPageNoneMarking(r, i) ==
    /\ inv[r][i].pc = "get_page"
    /\ inv' = [inv EXCEPT ![r][i] =
           [pc |-> "returned", ret |-> RetNoPage, result |-> None]]
    /\ button_clicked' = [button_clicked EXCEPT ![FlagCell(r)] = TRUE]
    /\ UNCHANGED <<main, ui>>

\* get_current_page() yields no page: the else branch
GetPageNone(r, i) ==
    /\ inv[r][i].pc = "get_page"
    /\ inv' = [inv EXCEPT ![r][i] =
           [pc |-> "returned", ret |-> RetNoPage, result |-> None]]
    /\ UNCHANGED <<main, button_clicked, ui>>

\* the body of the Promise executor: style and initial button are appended
Injected ==
    [NoUI EXCEPT !.style = TRUE, !.initialButton = TRUE,
                 !.promise = "pending"]

\* get_current_page() yields a page: inject_start_button_and_wait calls
\* page.evaluate, the script runs in the page, the caller awaits its Promise
GetPageOk(r, i) ==
    /\ inv[r][i].pc = "get_page"
    /\ inv' = [inv EXCEPT ![r][i].pc = "waiting"]
    /\ ui' = [ui EXCEPT ![r][i] = Injected]
    /\ UNCHANGED <<main, button_clicked>>

----------------------------------------------------------------------------
(* The page script *)

\* a resolve that settles the Promise again on every call
ResolveAgain(u, v) ==
    [u EXCEPT !.promise = "fulfilled", !.value = v,
              !.fulfilments = @ + 1]

\* resolve(v) of a Promise: settles a pending Promise, otherwise nothing
Resolve(u, v) ==
    IF u.promise = "pending"
    THEN [u EXCEPT !.promise = "fulfilled", !.value = v,
                   !.fulfilments = @ + 1]
    ELSE u

\* a one-step variant: the first click already resolves
ClickInitialResolving(r, i) ==
    /\ ui[r][i].initialButton
    /\ ui' = [ui EXCEPT ![r][i] =
           Resolve([@ EXCEPT !.initialButton = FALSE,
                            !.log = Append(@, "initial")], "started")]
    /\ UNCHANGED <<main, button_clicked, inv>>

\* click on FILL OUT APPLICATION: the button removes itself and appends
\* the container with the dropdown and the SUBMIT button
ClickInitial(r, i) ==
    /\ ui[r][i].initialButton
    /\ ui' = [ui EXCEPT ![r][i] =
           [@ EXCEPT !.initialButton = FALSE, !.container = TRUE,
                     !.log = Append(@, "initial")]]
    /\ UNCHANGED <<main, button_clicked, inv>>

Submits(u) == Cardinality({k \in 1..Len(u.log) : u.log[k] = "submit"})

RECURSIVE SumSubmits(_)
SumSubmits(S) ==
    IF S = {} THEN 0
    ELSE LET ri == CHOOSE x \in S : TRUE
         IN  Submits(ui[ri[1]][ri[2]]) + SumSubmits(S \ {ri})

\* a click on SUBMIT can be delivered while its container is in the page
MayClickSubmit(r, i) ==
    /\ ui[r][i].container
    /\ SumSubmits(Runs \X Invs) < MaxClicks

\* a variant that resolves without scheduling the removal
ClickSubmitNoTimer(r, i) ==
    /\ MayClickSubmit(r, i)
    /\ ui' = [ui EXCEPT ![r][i] =
           Resolve([@ EXCEPT !.log = Append(@, "submit")], DropdownValue)]
    /\ UNCHANGED <<main, button_clicked, inv>>

\* click on SUBMIT: reads dropdown.value, schedules container.remove()
\* in 500 ms, then resolve(selectedModel)
ClickSubmit(r, i) ==
    /\ MayClickSubmit(r, i)
    /\ ui' = [ui EXCEPT ![r][i] =
           Resolve([@ EXCEPT !.timers = @ + 1,
                            !.log = Append(@, "submit")], DropdownValue)]
    /\ UNCHANGED <<main, button_clicked, inv>>

\* a setTimeout callback runs: container.remove()
TimerFire(r, i) ==
    /\ ui[r][i].timers > 0
    /\ ui' = [ui EXCEPT ![r][i] =
           [@ EXCEPT !.timers = @ - 1, !.container = FALSE]]
    /\ UNCHANGED <<main, button_clicked, inv>>

\* a variant that forgets to set the flag
EvaluateReturnNoFlag(r, i) ==
    /\ inv[r][i].pc = "waiting"
    /\ ui[r][i].promise = "fulfilled"
    /\ inv' = [inv EXCEPT ![r][i] =
           [pc |-> "returned", ret |-> RetProceed,
            result |-> ui[r][i].value]]
    /\ UNCHANGED <<main, button_clicked, ui>>

\* a variant that hands the selection to the agent
EvaluateReturnSelection(r, i) ==
    /\ inv[r][i].pc = "waiting"
    /\ ui[r][i].promise = "fulfilled"
    /\ inv' = [inv EXCEPT ![r][i] =
           [pc |-> "returned", ret |-> ui[r][i].value,
            result |-> ui[r][i].value]]
    /\ button_clicked' = [button_clicked EXCEPT ![FlagCell(r)] = TRUE]
    /\ UNCHANGED <<main, ui>>

\* the awaited page.evaluate completes with the Promise's value:
\* inject_start_button_and_wait returns it, wait_for_start_button sets
\* the flag and returns its message
EvaluateReturn(r, i) ==
    /\ inv[r][i].pc = "waiting"
    /\ ui[r][i].promise = "fulfilled"
    /\ inv' = [inv EXCEPT ![r][i] =
           [pc |-> "returned", ret |-> RetProceed,
            result |-> ui[r][i].value]]
    /\ button_clicked' = [button_clicked EXCEPT ![FlagCell(r)] = TRUE]
    /\ UNCHANGED <<main, ui>>

----------------------------------------------------------------------------

Next ==
    \/ \E r \in Runs : MainMissingData(r)
    \/ \E r \in Runs : MainMissingResume(r)
    \/ \E r \in Runs : MainApply(r)
    \/ \E r \in Runs, i \in Invs : Invoke(r, i)
    \/ \E r \in Runs, i \in Invs : GetPageNone(r, i)
    \/ \E r \in Runs, i \in Invs : GetPageOk(r, i)
    \/ \E r \in Runs, i \in Invs : ClickInitial(r, i)
    \/ \E r \in Runs, i \in Invs : ClickSubmit(r, i)
    \/ \E r \in Runs, i \in Invs : TimerFire(r, i)
    \/ \E r \in Runs, i \in Invs : EvaluateReturn(r, i)

Spec == Init /\ [][Next]_vars

----------------------------------------------------------------------------
(* Properties *)

Began(r) == main[r].pc # "idle"
Applying(r) == main[r].pc = "applying"

\* the step in which the agent's call of invocation i of run r begins
Starts(r, i) == inv[r][i].pc = "idle" /\ inv'[r][i].pc # "idle"
\* the step in which invocation i of run r leaves get_current_page()
LeavesGetPage(r, i) == inv[r][i].pc = "get_page" /\ inv'[r][i].pc # "get_page"
\* the step in which invocation i of run r resumes from its wait
Resumes(r, i) == inv[r][i].pc = "waiting" /\ inv'[r][i].pc # "waiting"

Gated(r) == \E i \in Invs : inv[r][i].ret = RetProceed

\* C1: within one run, the first invocation (page available) injects the UI
\* and waits; every invocation that begins after an invocation of the run
\* has returned its 'proceeding' result returns 'Button already clicked,
\* continuing' in the same step, injecting nothing and without waiting.
C1_SecondCallReturnsAtOnce ==
    [][\A r \in Runs, j \in Invs :
          /\ (Starts(r, j) /\ ~Gated(r)) =>
                 /\ inv'[r][j].pc = "get_page"
                 /\ ui' = ui
          /\ (LeavesGetPage(r, j) /\ inv'[r][j].ret # RetNoPage) =>
                 /\ inv'[r][j].pc = "waiting"
                 /\ ui'[r][j] = Injected
          /\ (Starts(r, j) /\ Gated(r)) =>
                 /\ inv'[r][j] =
                      [pc |-> "returned", ret |-> RetAlready, result |-> None]
                 /\ ui' = ui
      ]_vars

C1_Witness ==
    \E r \in Runs : \E i, j \in Invs :
        /\ i < j
        /\ inv[r][i].ret = RetProceed
        /\ ui[r][i].log # << >>
        /\ inv[r][j].ret = RetAlready
        /\ ui[r][j] = NoUI

\* C2: when get_current_page yields no page the invocation returns the
\* string 'Error: Could not get current page'; main does not fail, nothing
\* is injected, the flag is unchanged (false unless another invocation was
\* gated), and an invocation that begins while the flag is false still goes
\* on to get the page and, with a page, injects and waits.
C2_NoPageIsAStringResult ==
    [][\A r \in Runs, i \in Invs :
          /\ (LeavesGetPage(r, i) /\ inv'[r][i].pc = "returned") =>
                 /\ inv'[r][i].ret = RetNoPage
                 /\ inv'[r][i].result = None
                 /\ main' = main
                 /\ main[r].pc = "applying"
                 /\ ui' = ui
                 /\ button_clicked' = button_clicked
                 /\ (~Gated(r) => ~button_clicked'[r])
          /\ (Starts(r, i) /\ ~button_clicked[r]) =>
                 inv'[r][i].pc = "get_page"
          /\ (LeavesGetPage(r, i) /\ inv'[r][i].pc = "waiting") =>
                 ui'[r][i] = Injected
      ]_vars

C2_Witness ==
    \E r \in Runs : \E i, j \in Invs :
        /\ i < j
        /\ inv[r][i].ret = RetNoPage
        /\ ui[r][i] = NoUI
        /\ ~button_clicked[r]
        /\ inv[r][j].pc = "waiting"
        /\ ui[r][j].style

\* C3: with the data path or the resume path missing, main raises its
\* file-not-found error with nothing of apply_to_job constructed, no agent
\* run and no tool invocation; the data path is checked first, so with both
\* missing the error is the one about the data file.
C3_MissingInputRaisesEarly ==
    \A r \in Runs :
        Began(r) =>
          /\ (~path_exists(main[r].data_path)
                \/ ~path_exists(main[r].resume_path))
               => main[r].pc = "raised"
          /\ main[r].pc = "raised" =>
               /\ main[r].constructed = {}
               /\ main[r].agent_runs = 0
               /\ main[r].task = << >>
               /\ \A i \in Invs : inv[r][i] = NoInv /\ ui[r][i] = NoUI
          /\ ~path_exists(main[r].data_path) => main[r].error = ErrData
          /\ (path_exists(main[r].data_path)
                /\ ~path_exists(main[r].resume_path))
               => main[r].error = ErrResume
          /\ (path_exists(main[r].data_path)
                /\ path_exists(main[r].resume_path))
               => /\ main[r].error = None
                  /\ main[r].agent_runs = 1

C3_Witness ==
    \E r \in Runs :
        /\ main[r].pc = "raised"
        /\ ~path_exists(main[r].data_path)
        /\ ~path_exists(main[r].resume_path)
        /\ main[r].error = ErrData
        /\ main[r].constructed = {}

\* C4: the Promise of one inject_start_button_and_wait call is fulfilled at
\* most once, with dropdown.value, and the awaiting caller receives exactly
\* that value, however many clicks SUBMIT gets.
C4_OneFulfilmentValueUnchanged ==
    \A r \in Runs, i \in Invs :
        /\ ui[r][i].fulfilments <= 1
        /\ ui[r][i].promise = "fulfilled" =>
               /\ ui[r][i].fulfilments = 1
               /\ ui[r][i].value = DropdownValue
        /\ ui[r][i].promise \in {"none", "pending"} =>
               /\ ui[r][i].value = None
               /\ inv[r][i].result = None
        /\ inv[r][i].result # None =>
               /\ inv[r][i].result = ui[r][i].value
               /\ inv[r][i].result = DropdownValue

C4_Witness ==
    \E r \in Runs, i \in Invs :
        /\ Submits(ui[r][i]) >= 2
        /\ ui[r][i].fulfilments = 1
        /\ inv[r][i].result = DropdownValue

\* C5 as stated: once the signal is resolved, what wait_for_start_button
\* returns to the agent is the resolution value.
C5_ReturnsResolutionValue ==
    \A r \in Runs, i \in Invs :
        inv[r][i].result # None => inv[r][i].ret = inv[r][i].result

\* C5 amended: inject_start_button_and_wait returns the resolution value to
\* wait_for_start_button, which returns the fixed string 'User clicked start
\* button - proceeding with form filling' to the agent, not the value.
C5_ReturnsFixedMessage ==
    \A r \in Runs, i \in Invs :
        /\ inv[r][i].result # None =>
               /\ inv[r][i].result = ui[r][i].value
               /\ inv[r][i].ret = RetProceed
               /\ inv[r][i].ret # inv[r][i].result
        /\ inv[r][i].ret = RetProceed => inv[r][i].result = DropdownValue

C5_Witness ==
    \E r \in Runs, i \in Invs :
        /\ inv[r][i].pc = "returned"
        /\ inv[r][i].result = DropdownValue
        /\ inv[r][i].ret = RetProceed

\* C6 as stated: in the step in which the action resumes after resolution,
\* none of the nodes it injected (initial button, container, style element)
\* is in the page any more.
C6_NoInjectedNodeOnResume ==
    [][\A r \in Runs, i \in Invs :
          (Resumes(r, i) /\ inv'[r][i].ret = RetProceed) =>
              /\ ~ui'[r][i].initialButton
              /\ ~ui'[r][i].container
              /\ ~ui'[r][i].style
      ]_vars

\* C6 amended: when the action has returned after resolution, the initial
\* button is gone and the removal of the container is done or scheduled
\* (the 500 ms timer of the SUBMIT click), so the container may still be
\* there; the style element is never removed.
C6_RemovalDoneOrScheduled ==
    \A r \in Runs, i \in Invs :
        /\ inv[r][i].ret = RetProceed =>
               /\ ~ui[r][i].initialButton
               /\ ui[r][i].container => ui[r][i].timers > 0
               /\ ui[r][i].style
        /\ ui[r][i].promise # "none" => ui[r][i].style

C6_Witness ==
    \E r \in Runs, i \in Invs :
        /\ inv[r][i].ret = RetProceed
        /\ ui[r][i].container
        /\ ui[r][i].timers > 0
        /\ ui[r][i].style

\* C7: the 'proceeding' result is returned only after a click on the
\* initial button followed by a click on SUBMIT; the first click alone
\* leaves the Promise pending; while SUBMIT has not been clicked the
\* waiting invocation stays waiting, and the flag is true only if SUBMIT
\* was clicked in some invocation of the run.
C7_ResumesOnlyAfterBothClicks ==
    \A r \in Runs :
        /\ \A i \in Invs :
            /\ inv[r][i].ret = RetProceed =>
                   /\ Len(ui[r][i].log) >= 2
                   /\ ui[r][i].log[1] = "initial"
                   /\ ui[r][i].log[2] = "submit"
            /\ (ui[r][i].promise # "none" /\ Submits(ui[r][i]) = 0) =>
                   /\ ui[r][i].promise = "pending"
                   /\ inv[r][i].pc = "waiting"
                   /\ inv[r][i].ret = None
        /\ button_clicked[r] => \E i \in Invs : Submits(ui[r][i]) > 0
        /\ (\A i \in Invs : Submits(ui[r][i]) = 0) => ~button_clicked[r]

C7_Witness ==
    \E r, q \in Runs : \E i, j \in Invs :
        /\ inv[r][i].ret = RetProceed
        /\ ui[r][i].log[1] = "initial"
        /\ ui[r][i].log[2] = "submit"
        /\ inv[q][j].pc = "waiting"
        /\ ui[q][j].log = << "initial" >>
        /\ ui[q][j].promise = "pending"

\* C8 as stated: the task string contains the serialized applicant record
\* and the resume path, and equal inputs give equal strings.
C8_TaskHasRecordAndResumePath ==
    \A r \in Runs :
        Applying(r) =>
          /\ Contains(main[r].task, PyStr(main[r].applicant_info))
          /\ Contains(main[r].task, << main[r].resume_path >>)
          /\ \A q \in Runs :
                (/\ Applying(q)
                 /\ main[q].applicant_info = main[r].applicant_info
                 /\ main[q].resume_path = main[r].resume_path)
                => main[q].task = main[r].task

\* C8 amended: the task string contains str() of the applicant record and is
\* a function of the record alone; the resume path is not interpolated into
\* it and reaches the agent as the one entry of available_file_paths.
C8_TaskHasRecordOnly ==
    \A r \in Runs :
        Applying(r) =>
          /\ main[r].applicant_info = json_load(main[r].data_path)
          /\ Contains(main[r].task, PyStr(main[r].applicant_info))
          /\ main[r].available_file_paths = << main[r].resume_path >>
          /\ \A q \in Runs :
                (/\ Applying(q)
                 /\ main[q].applicant_info = main[r].applicant_info)
                => main[q].task = main[r].task

C8_Witness ==
    \E r, q \in Runs :
        /\ Applying(r) /\ Applying(q)
        /\ main[r].applicant_info = main[q].applicant_info
        /\ main[r].resume_path # main[q].resume_path
        /\ main[r].task = main[q].task
        /\ Contains(main[r].task, << "'", "John", "'" >>)
        /\ Contains(main[r].task, << "True" >>)
        /\ Contains(main[r].task, << "False" >>)

\* C9: button_clicked changes only from false to true, and only in the step
\* in which an invocation's wait on the fulfilled Promise completes; every
\* invocation that begins with the flag false goes on to get the page and,
\* with a page, injects its UI and waits, whatever other invocations of the
\* run are pending or have completed meanwhile.
C9_FlagSetOnlyAfterWait ==
    [][\A r \in Runs :
          /\ button_clicked'[r] # button_clicked[r] =>
                 /\ ~button_clicked[r]
                 /\ button_clicked'[r]
                 /\ \E i \in Invs :
                       /\ Resumes(r, i)
                       /\ ui[r][i].promise = "fulfilled"
                       /\ inv'[r][i].pc = "returned"
          /\ \A i \in Invs :
                 /\ (Starts(r, i) /\ ~button_clicked[r]) =>
                        /\ inv'[r][i].pc = "get_page"
                        /\ button_clicked' = button_clicked
                 /\ (LeavesGetPage(r, i) /\ inv'[r][i].ret # RetNoPage) =>
                        /\ inv'[r][i].pc = "waiting"
                        /\ ui'[r][i] = Injected
                        /\ button_clicked' = button_clicked
      ]_vars

C9_Witness ==
    \E r \in Runs : \E i, j \in Invs :
        /\ i # j
        /\ inv[r][i].ret = RetProceed
        /\ button_clicked[r]
        /\ inv[r][j].pc = "waiting"
        /\ ui[r][j].promise = "pending"

\* C10: the flag belongs to one apply_to_job call: an invocation returns
\* 'already clicked' only if an invocation of its own run completed the
\* wait, and a run's flag is true only then, whatever other runs did.
C10_FlagPerRun ==
    \A r \in Runs :
        /\ button_clicked[r] <=> Gated(r)
        /\ \A j \in Invs :
              inv[r][j].ret = RetAlready =>
                  /\ Gated(r)
                  /\ ui[r][j] = NoUI

C10_Witness ==
    \E r, q \in Runs :
        /\ r # q
        /\ Gated(r)
        /\ button_clicked[r]
        /\ ~button_clicked[q]
        /\ inv[q][1].pc = "waiting"
        /\ ui[q][1].promise = "pending"

====
